---- MODULE Spec2Model ----
(***************************************************************************)
(* TrucoMaster: the match engine (gameUtils, gameRules, cardUtils), the    *)
(* TrucoGame class that wraps it, and the socket handlers that route       *)
(* intents to one match.                                                   *)
(*                                                                         *)
(* Connection ids (socket.id) are the integers from 1, handed out in       *)
(* order; '' is NoId and null is NullId.  A card's uuid is its position    *)
(* in createDeck's order.  PlayedCard.timestamp, the chat log and the      *)
(* playerNames table are not read by any transition and are left out.      *)
(***************************************************************************)
EXTENDS Integers, Sequences, FiniteSets, TLC

\* ------------------------------------------------------------------ bounds

\* rounds begun (by a deal, or by a decline outside PLAYING) per match
MaxRounds == 2
\* stake-increase requests taken up per match
MaxRequests == 6
\* connections opened beyond one per seat, for reconnections
ExtraSockets == 1
\* transport drops per match
MaxDrops == 1
\* number of distinct shuffles a deal may draw
NumShuffles == 1
\* open connections that hold no seat, at any one time
MaxIdle == 1
\* the step by which time passes between deadlines
TickStep == 30

\* The match is explored in scopes.  A scope fixes the mode, the display
\* names each connection may present, and how many connections, shuffles,
\* rounds, card plays, stake requests and transport drops a run may use:
\*   "stakes"  the betting ladder through a whole round;
\*   "match"   the ladder over several rounds, up to and beyond GAME_OVER;
\*   "redeal"  a second deal after the first trick of a round;
\*   "seats"   a drop and a reconnection in a round played to its end;
\*   "twins"   a drop and a reconnection among seats sharing a display name;
\*   "lobby"   two drops and a reconnection before the first deal;
\*   "teams"   a four-seat table.
Scopes ==
    { [name |-> "stakes", mode |-> "1v1",
       names |-> <<{"ana"}, {"bia"}>>,
       sockets |-> 2, shuffles |-> NumShuffles, rounds |-> 1, plays |-> 6,
       requests |-> MaxRequests, drops |-> 0],
      [name |-> "match", mode |-> "1v1",
       names |-> <<{"ana"}, {"bia"}>>,
       sockets |-> 2, shuffles |-> NumShuffles, rounds |-> MaxRounds, plays |-> 0,
       requests |-> MaxRequests, drops |-> 0],
      [name |-> "redeal", mode |-> "1v1",
       names |-> <<{"ana"}, {"bia"}>>,
       sockets |-> 2, shuffles |-> NumShuffles, rounds |-> MaxRounds, plays |-> 3,
       requests |-> 0, drops |-> 0],
      [name |-> "seats", mode |-> "1v1",
       names |-> <<{"ana"}, {"bia"}, {"ana", "bia"}, {"ana", "bia"}>>,
       sockets |-> 2 + ExtraSockets, shuffles |-> NumShuffles, rounds |-> 1, plays |-> 6,
       requests |-> 0, drops |-> MaxDrops],
      [name |-> "twins", mode |-> "1v1",
       names |-> <<{"ana"}, {"ana"}, {"ana"}, {"ana"}>>,
       sockets |-> 2 + ExtraSockets, shuffles |-> NumShuffles, rounds |-> 1, plays |-> 0,
       requests |-> 1, drops |-> MaxDrops],
      [name |-> "lobby", mode |-> "1v1",
       names |-> <<{"ana"}, {"ana"}, {"ana"}, {"ana"}>>,
       sockets |-> 2 + ExtraSockets, shuffles |-> NumShuffles, rounds |-> 1, plays |-> 0,
       requests |-> 0, drops |-> MaxDrops + 1],
      [name |-> "teams", mode |-> "2v2",
       names |-> <<{"ana"}, {"bia"}, {"caio"}, {"duda"}>>,
       sockets |-> 4, shuffles |-> NumShuffles, rounds |-> 1, plays |-> 4,
       requests |-> 0, drops |-> 0] }

\* ------------------------------------------------------------------ values

NoId == 0
NullId == -1
HandSize == 3
WinScore == 12
\* the delay of the removal timer (the time unit is 1000 ms)
GraceWindow == 60

NoCard == [suit |-> "none", value |-> "none", id |-> 0]

Suits == <<"hearts", "spades", "diamonds", "clubs">>
CardValues == <<"A", "2", "3", "4", "5", "6", "7", "Q", "J", "K">>

WAITING_FOR_PLAYERS == "waiting_for_players"
PLAYING == "playing"
ROUND_OVER == "round_over"
GAME_OVER == "game_over"

\* ------------------------------------------------------------- sequences

Range(seq) == {seq[i] : i \in 1..Len(seq)}

RECURSIVE PlayerIndexFrom(_, _, _)
PlayerIndexFrom(players, playerId, i) ==
    IF i > Len(players) THEN -1
    ELSE IF players[i].id = playerId THEN i - 1
    ELSE PlayerIndexFrom(players, playerId, i + 1)

\* players.findIndex(p => p.id === playerId): 0-based, -1 when absent
PlayerIndex(players, playerId) == PlayerIndexFrom(players, playerId, 1)

\* players.some(p => p.id === playerId)
HasPlayer(players, playerId) == PlayerIndex(players, playerId) # -1

\* players.find(p => p.id === playerId), for a playerId that HasPlayer
FindPlayer(players, playerId) == players[PlayerIndex(players, playerId) + 1]

RECURSIVE CardIndexFrom(_, _, _)
CardIndexFrom(hand, cardId, i) ==
    IF i > Len(hand) THEN -1
    ELSE IF hand[i].id = cardId THEN i - 1
    ELSE CardIndexFrom(hand, cardId, i + 1)

\* hand.findIndex(c => c.id === cardId)
CardIndex(hand, cardId) == CardIndexFrom(hand, cardId, 1)

\* a copy of seq without its element at 0-based index k (splice(k, 1))
Splice(seq, k) == SubSeq(seq, 1, k) \o SubSeq(seq, k + 2, Len(seq))

\* -------------------------------------------------------------- gameRules

CARD_STRENGTHS(value) ==
    CASE value = "3" -> 10
      [] value = "2" -> 9
      [] value = "A" -> 8
      [] value = "K" -> 7
      [] value = "J" -> 6
      [] value = "Q" -> 5
      [] value = "7" -> 4
      [] value = "6" -> 3
      [] value = "5" -> 2
      [] value = "4" -> 1

MANILHA_SUIT_STRENGTH(suit) ==
    CASE suit = "clubs" -> 4
      [] suit = "hearts" -> 3
      [] suit = "spades" -> 2
      [] suit = "diamonds" -> 1

\* the turned card's own face taken as the manilha face
viraValue(vira) == vira.value

getManilhaValue(vira) ==
    IF vira = NoCard THEN "none"
    ELSE CASE vira.value = "A" -> "2"
           [] vira.value = "2" -> "3"
           [] vira.value = "3" -> "4"
           [] vira.value = "4" -> "5"
           [] vira.value = "5" -> "6"
           [] vira.value = "6" -> "7"
           [] vira.value = "7" -> "Q"
           [] vira.value = "Q" -> "J"
           [] vira.value = "J" -> "K"
           [] vira.value = "K" -> "A"
           [] OTHER -> "none"

isManilha(card, vira) ==
    IF vira = NoCard THEN FALSE
    ELSE card.value = getManilhaValue(vira)

\* the comparison by face strength alone
compareStrengths(card1, card2, vira) ==
    CARD_STRENGTHS(card1.value) - CARD_STRENGTHS(card2.value)

compareCards(card1, card2, vira) ==
    LET card1IsManilha == isManilha(card1, vira)
        card2IsManilha == isManilha(card2, vira)
    IN  IF card1IsManilha /\ card2IsManilha
          THEN MANILHA_SUIT_STRENGTH(card1.suit) - MANILHA_SUIT_STRENGTH(card2.suit)
        ELSE IF card1IsManilha THEN 1
        ELSE IF card2IsManilha THEN -1
        ELSE CARD_STRENGTHS(card1.value) - CARD_STRENGTHS(card2.value)

RECURSIVE TrickWinnerFrom(_, _, _, _)
TrickWinnerFrom(playedCards, vira, i, winning) ==
    IF i > Len(playedCards) THEN winning.playerId
    ELSE IF compareCards(playedCards[i].card, winning.card, vira) > 0
      THEN TrickWinnerFrom(playedCards, vira, i + 1, playedCards[i])
    ELSE TrickWinnerFrom(playedCards, vira, i + 1, winning)

determineTrickWinner(playedCards, vira) ==
    IF Len(playedCards) = 0 THEN NullId
    ELSE TrickWinnerFrom(playedCards, vira, 2, playedCards[1])

getRoundPoints(roundValue) ==
    CASE roundValue = 1 -> 1
      [] roundValue = 3 -> 3
      [] roundValue = 6 -> 6
      [] roundValue = 9 -> 9
      [] roundValue = 12 -> 12
      [] OTHER -> 1

hasWinningScore(score) == score >= WinScore

getNextRoundValue(currentValue) ==
    CASE currentValue = 1 -> 3
      [] currentValue = 3 -> 6
      [] currentValue = 6 -> 9
      [] currentValue = 9 -> 12
      [] OTHER -> 3

\* -------------------------------------------------------------- cardUtils

\* suit-major, value-minor; the id stands for the uuid
createDeck ==
    [i \in 1..40 |->
        [suit |-> Suits[((i - 1) \div 10) + 1],
         value |-> CardValues[((i - 1) % 10) + 1],
         id |-> i]]

\* The orders Math.random may produce are drawn from this table: each row
\* names the twelve cards on top of the shuffled deck and the card at its
\* bottom (the vira); the rest keeps createDeck's order.
ShuffleTable ==
    << [top |-> <<5, 30, 14,   13, 10, 36,   35, 22, 7,    11, 28, 4>>,  bottom |-> 34],
       [top |-> <<2, 17, 38,   21, 27, 9,    31, 6, 23,    33, 19, 25>>, bottom |-> 20],
       [top |-> <<18, 3, 24,   8, 12, 26,    40, 29, 15,   1, 32, 16>>,  bottom |-> 7],
       [top |-> <<34, 4, 39,   14, 24, 31,   2, 13, 28,    10, 37, 5>>,  bottom |-> 23] >>

shuffleDeck(deck, r) ==
    LET row == ShuffleTable[r]
        named == Range(row.top) \cup {row.bottom}
        rest == SelectSeq(deck, LAMBDA c : c.id \notin named)
    IN  [i \in 1..Len(row.top) |-> deck[row.top[i]]] \o rest \o <<deck[row.bottom]>>

\* deck.splice(0, count): the cards taken, and what is left of the deck
dealCards(deck, count) ==
    LET n == IF count < Len(deck) THEN count ELSE Len(deck)
    IN  [taken |-> SubSeq(deck, 1, n), deck |-> SubSeq(deck, n + 1, Len(deck))]

updateManilhas(cards, vira) ==
    IF vira = NoCard THEN cards
    ELSE [i \in 1..Len(cards) |->
            LET card == cards[i]
                isCardManilha == card.value = getManilhaValue(vira)
            IN  [suit |-> card.suit, value |-> card.value, id |-> card.id,
                 isManilha |-> isCardManilha,
                 rank |-> IF isCardManilha THEN MANILHA_SUIT_STRENGTH(card.suit) ELSE 0]]

\* -------------------------------------------------------------- gameUtils

RequiredPlayers(mode) == IF mode = "1v1" THEN 2 ELSE 4

initializeGameState(mode, players) ==
    [mode |-> mode,
     roundState |-> WAITING_FOR_PLAYERS,
     players |-> players,
     currentTrick |-> <<>>,
     tricks |-> <<>>,
     vira |-> NoCard,
     teamAScore |-> 0,
     teamBScore |-> 0,
     roundValue |-> 1,
     dealer |-> IF Len(players) > 0 THEN players[1].id ELSE NoId,
     currentPlayer |-> NoId,
     winner |-> "null",
     trucoRequested |-> FALSE,
     trucoRequestedBy |-> NullId,
     roundWinner |-> "null"]

assignTeams(players, mode) ==
    IF mode = "1v1"
      THEN [i \in 1..Len(players) |->
              IF i = 1 THEN [players[i] EXCEPT !.team = "A"]
              ELSE IF i = 2 THEN [players[i] EXCEPT !.team = "B"]
              ELSE players[i]]
    ELSE [i \in 1..Len(players) |->
              [players[i] EXCEPT !.team = IF (i - 1) % 2 = 0 THEN "A" ELSE "B"]]

\* players[(index + 1) % players.length]?.id || '', for the 0-based index
\* findIndex gave (-1 when the id names no seat)
NextSeatId(players, index) ==
    IF Len(players) = 0 THEN NoId
    ELSE players[((index + 1) % Len(players)) + 1].id

\* the hand the i-th seat gets: the i-th splice of HandSize cards
DealtHand(deck, i) ==
    dealCards(SubSeq(deck, HandSize * (i - 1) + 1, Len(deck)), HandSize).taken

dealCardsToPlayers(gameState, r) ==
    LET shuffled == shuffleDeck(createDeck, r)
        vira == shuffled[Len(shuffled)]
        deck == SubSeq(shuffled, 1, Len(shuffled) - 1)
        dealerIndex == PlayerIndex(gameState.players, gameState.dealer)
        firstPlayerId == NextSeatId(gameState.players, dealerIndex)
        playersWithTurn ==
            [i \in 1..Len(gameState.players) |->
                [gameState.players[i] EXCEPT
                    !.hand = updateManilhas(DealtHand(deck, i), vira),
                    !.isYourTurn = (gameState.players[i].id = firstPlayerId)]]
    IN  [gameState EXCEPT
            !.players = playersWithTurn,
            !.vira = vira,
            !.roundState = PLAYING,
            !.currentPlayer = firstPlayerId,
            !.currentTrick = <<>>]

\* tricks.filter(trick => find(determineTrickWinner(trick))?.team === team).length
TeamTricks(gameState, tricks, team) ==
    Len(SelectSeq(tricks, LAMBDA trick :
        LET winnerId == determineTrickWinner(trick, gameState.vira)
        IN  /\ HasPlayer(gameState.players, winnerId)
            /\ FindPlayer(gameState.players, winnerId).team = team))

\* every seat: dealer flag moved to nextDealerId, turn flag off, hand cleared
PlayersAtRoundEnd(players, nextDealerId) ==
    [i \in 1..Len(players) |->
        [players[i] EXCEPT
            !.isDealer = (players[i].id = nextDealerId),
            !.isYourTurn = FALSE,
            !.hand = <<>>]]

\* a finish that only closes the round, clearing nothing
closeRound(gs, tricks) == [gs EXCEPT !.roundState = ROUND_OVER]

finishRound(gameState, tricks) ==
    LET teamATricks == TeamTricks(gameState, tricks, "A")
        teamBTricks == TeamTricks(gameState, tricks, "B")
        roundWinner ==
            IF teamATricks > teamBTricks THEN "A"
            ELSE IF teamBTricks > teamATricks THEN "B"
            ELSE IF HasPlayer(gameState.players, gameState.dealer)
              THEN FindPlayer(gameState.players, gameState.dealer).team
            ELSE "null"
        teamAScore ==
            IF roundWinner = "A"
              THEN gameState.teamAScore + getRoundPoints(gameState.roundValue)
            ELSE gameState.teamAScore
        teamBScore ==
            IF roundWinner = "B"
              THEN gameState.teamBScore + getRoundPoints(gameState.roundValue)
            ELSE gameState.teamBScore
        winner ==
            IF hasWinningScore(teamAScore) THEN "A"
            ELSE IF hasWinningScore(teamBScore) THEN "B"
            ELSE "null"
        dealerIndex == PlayerIndex(gameState.players, gameState.dealer)
        nextDealerId == NextSeatId(gameState.players, dealerIndex)
    IN  [gameState EXCEPT
            !.players = PlayersAtRoundEnd(gameState.players, nextDealerId),
            !.teamAScore = teamAScore,
            !.teamBScore = teamBScore,
            !.roundState = IF winner # "null" THEN GAME_OVER ELSE ROUND_OVER,
            !.winner = winner,
            !.roundWinner = roundWinner,
            !.currentTrick = <<>>,
            !.tricks = <<>>,
            !.roundValue = 1,
            !.dealer = nextDealerId,
            !.trucoRequested = FALSE,
            !.trucoRequestedBy = NullId]

\* updatedTricks.length === 3 || teamATricks >= 2 || teamBTricks >= 2
isRoundOver(gameState, updatedTricks) ==
    \/ Len(updatedTricks) = 3
    \/ TeamTricks(gameState, updatedTricks, "A") >= 2
    \/ TeamTricks(gameState, updatedTricks, "B") >= 2

evaluateTrick(gameState) ==
    LET trickWinnerId == determineTrickWinner(gameState.currentTrick, gameState.vira)
        updatedTricks == Append(gameState.tricks, gameState.currentTrick)
    IN  IF trickWinnerId = NullId \/ trickWinnerId = NoId THEN gameState
        ELSE IF ~HasPlayer(gameState.players, trickWinnerId) THEN gameState
        ELSE IF isRoundOver(gameState, updatedTricks)
          THEN finishRound(gameState, updatedTricks)
        ELSE [gameState EXCEPT
                !.players = [i \in 1..Len(gameState.players) |->
                    [gameState.players[i] EXCEPT
                        !.isYourTurn = (gameState.players[i].id = trickWinnerId)]],
                !.currentPlayer = trickWinnerId,
                !.currentTrick = <<>>,
                !.tricks = updatedTricks]

processPlayedCard(gameState, playerId, cardId) ==
    LET playerIndex == PlayerIndex(gameState.players, playerId)
    IN  IF playerIndex = -1 THEN gameState
        ELSE
        LET player == gameState.players[playerIndex + 1]
            cardIndex == CardIndex(player.hand, cardId)
        IN  IF cardIndex = -1 THEN gameState
            ELSE
            LET card == player.hand[cardIndex + 1]
                updatedPlayers ==
                    [gameState.players EXCEPT ![playerIndex + 1] =
                        [player EXCEPT !.hand = Splice(player.hand, cardIndex),
                                       !.isYourTurn = FALSE]]
                playedCard == [playerId |-> playerId, card |-> card]
                updatedTrick == Append(gameState.currentTrick, playedCard)
                nextState == [gameState EXCEPT !.players = updatedPlayers,
                                               !.currentTrick = updatedTrick]
                nextPlayerId == NextSeatId(gameState.players, playerIndex)
            IN  IF Len(updatedTrick) = Len(gameState.players)
                  THEN evaluateTrick(nextState)
                ELSE [nextState EXCEPT
                        !.players = [i \in 1..Len(nextState.players) |->
                            [nextState.players[i] EXCEPT
                                !.isYourTurn = (nextState.players[i].id = nextPlayerId)]],
                        !.currentPlayer = nextPlayerId]

\* startNewRound without its ROUND_OVER check
startNewRoundAnyState(gameState, r) ==
    dealCardsToPlayers(
        [gameState EXCEPT
            !.roundState = PLAYING,
            !.currentTrick = <<>>,
            !.tricks = <<>>,
            !.roundValue = 1,
            !.trucoRequested = FALSE,
            !.trucoRequestedBy = NullId,
            !.roundWinner = "null"], r)

startNewRound(gameState, r) ==
    IF gameState.roundState # ROUND_OVER THEN gameState
    ELSE dealCardsToPlayers(
            [gameState EXCEPT
                !.roundState = PLAYING,
                !.currentTrick = <<>>,
                !.tricks = <<>>,
                !.roundValue = 1,
                !.trucoRequested = FALSE,
                !.trucoRequestedBy = NullId,
                !.roundWinner = "null"], r)

processTrucoRequest(gameState, playerId) ==
    IF gameState.trucoRequested THEN gameState
    ELSE IF ~HasPlayer(gameState.players, playerId) THEN gameState
    ELSE [gameState EXCEPT !.trucoRequested = TRUE,
                           !.trucoRequestedBy = playerId]

\* the switch of acceptTrucoRequest (its own copy of the ladder)
nextRoundValue(roundValue) ==
    CASE roundValue = 1 -> 3
      [] roundValue = 3 -> 6
      [] roundValue = 6 -> 9
      [] roundValue = 9 -> 12
      [] OTHER -> 3

\* !gameState.trucoRequested || !gameState.trucoRequestedBy
NoTrucoPending(gameState) ==
    \/ ~gameState.trucoRequested
    \/ gameState.trucoRequestedBy = NullId
    \/ gameState.trucoRequestedBy = NoId

acceptTrucoRequest(gameState) ==
    IF NoTrucoPending(gameState) THEN gameState
    ELSE IF ~HasPlayer(gameState.players, gameState.trucoRequestedBy) THEN gameState
    ELSE [gameState EXCEPT
            !.trucoRequested = FALSE,
            !.trucoRequestedBy = NullId,
            !.roundValue = nextRoundValue(gameState.roundValue)]

declineTrucoRequest(gameState) ==
    IF NoTrucoPending(gameState) THEN gameState
    ELSE IF ~HasPlayer(gameState.players, gameState.trucoRequestedBy) THEN gameState
    ELSE
    LET requestingPlayer == FindPlayer(gameState.players, gameState.trucoRequestedBy)
        winningTeam == IF requestingPlayer.team = "A" THEN "A" ELSE "B"
        teamAScore ==
            IF winningTeam = "A"
              THEN gameState.teamAScore + getRoundPoints(gameState.roundValue)
            ELSE gameState.teamAScore
        teamBScore ==
            IF winningTeam = "A" THEN gameState.teamBScore
            ELSE gameState.teamBScore + getRoundPoints(gameState.roundValue)
        winner ==
            IF hasWinningScore(teamAScore) THEN "A"
            ELSE IF hasWinningScore(teamBScore) THEN "B"
            ELSE "null"
        dealerIndex == PlayerIndex(gameState.players, gameState.dealer)
        nextDealerId == NextSeatId(gameState.players, dealerIndex)
    IN  [gameState EXCEPT
            !.players = PlayersAtRoundEnd(gameState.players, nextDealerId),
            !.teamAScore = teamAScore,
            !.teamBScore = teamBScore,
            !.roundState = IF winner # "null" THEN GAME_OVER ELSE ROUND_OVER,
            !.winner = winner,
            !.roundWinner = winningTeam,
            !.currentTrick = <<>>,
            !.tricks = <<>>,
            !.roundValue = 1,
            !.dealer = nextDealerId,
            !.trucoRequested = FALSE,
            !.trucoRequestedBy = NullId]

\* -------------------------------------------------------------- TrucoGame

VARIABLES
    gameState,            \* TrucoGame.gameState
    disconnectedPlayers,  \* TrucoGame.disconnectedPlayers, in insertion order
    registered,           \* the match is in GameManager.games
    sockets,              \* ids of the connections that are open
    issued,               \* how many connection ids were handed out
    scope,                \* the scope this run explores (never changes)
    rounds,               \* rounds begun so far
    plays,                \* cards played so far
    requests,             \* stake-increase requests taken up so far
    drops,                \* transport drops so far
    dropped,              \* what each seat now marked disconnected had when it dropped
    timers,               \* time left on each pending setTimeout, in the order set
    quiet,                \* time for which no seat has had an open connection
    spared,               \* a timer expired and left the match in the registry
    rules                 \* the cards a rule function is applied to, and what it gave

vars == <<gameState, disconnectedPlayers, registered, sockets, issued,
          scope, rounds, plays, requests, drops, dropped, timers, quiet,
          spared, rules>>

\* the exploration counters
counters == <<scope, rounds, plays, requests, drops>>

isGameFull(gs) == Len(gs.players) >= RequiredPlayers(gs.mode)

getPlayerCount(gs) == Len(gs.players)

getConnectedPlayerCount(gs) ==
    Len(SelectSeq(gs.players, LAMBDA p : ~p.isDisconnected))

\* addPlayer without its two checks: the seat is appended whatever the
\* seat list holds
addPlayerUnchecked(gs, playerId, username) ==
    [gs EXCEPT !.players =
        assignTeams(Append(gs.players,
                           [id |-> playerId,
                            username |-> username,
                            hand |-> <<>>,
                            isDealer |-> (Len(gs.players) = 0),
                            team |-> "A",
                            isReady |-> FALSE,
                            isYourTurn |-> FALSE,
                            isDisconnected |-> FALSE]),
                    gs.mode)]

addPlayer(gs, playerId, username) ==
    IF Len(gs.players) >= RequiredPlayers(gs.mode) THEN gs
    ELSE IF HasPlayer(gs.players, playerId) THEN gs
    ELSE
    LET newPlayer == [id |-> playerId,
                      username |-> username,
                      hand |-> <<>>,
                      isDealer |-> (Len(gs.players) = 0),
                      team |-> "A",
                      isReady |-> FALSE,
                      isYourTurn |-> FALSE,
                      isDisconnected |-> FALSE]
        playersWithTeams == assignTeams(Append(gs.players, newPlayer), gs.mode)
    IN  [gs EXCEPT !.players = playersWithTeams,
                   !.dealer = IF Len(playersWithTeams) = 1 THEN playerId ELSE gs.dealer]

resetGame(gs) ==
    LET firstId == IF Len(gs.players) > 0 THEN gs.players[1].id ELSE NoId
    IN  [gs EXCEPT
            !.players = [i \in 1..Len(gs.players) |->
                [gs.players[i] EXCEPT
                    !.hand = <<>>,
                    !.isReady = FALSE,
                    !.isYourTurn = FALSE,
                    !.isDealer = (Len(gs.players) > 0 /\ gs.players[i].id = firstId)]],
            !.roundState = WAITING_FOR_PLAYERS,
            !.currentTrick = <<>>,
            !.tricks = <<>>,
            !.vira = NoCard,
            !.teamAScore = 0,
            !.teamBScore = 0,
            !.roundValue = 1,
            !.dealer = firstId,
            !.currentPlayer = NoId,
            !.winner = "null",
            !.trucoRequested = FALSE,
            !.trucoRequestedBy = NullId,
            !.roundWinner = "null"]

removePlayer(gs, playerId) ==
    IF ~HasPlayer(gs.players, playerId) THEN gs
    ELSE IF gs.roundState # WAITING_FOR_PLAYERS THEN resetGame(gs)
    ELSE
    LET updatedPlayers == SelectSeq(gs.players, LAMBDA p : p.id # playerId)
        dealer == IF gs.dealer = playerId /\ Len(updatedPlayers) > 0
                    THEN updatedPlayers[1].id
                  ELSE gs.dealer
    IN  [gs EXCEPT !.players = assignTeams(updatedPlayers, gs.mode),
                   !.dealer = dealer]

startGame(gs, r) ==
    IF Len(gs.players) < RequiredPlayers(gs.mode) THEN gs
    ELSE dealCardsToPlayers(gs, r)

setPlayerReady(gs, playerId, r) ==
    LET playerIndex == PlayerIndex(gs.players, playerId)
    IN  IF playerIndex = -1 THEN gs
        ELSE
        LET updatedPlayers ==
                [gs.players EXCEPT ![playerIndex + 1] =
                    [gs.players[playerIndex + 1] EXCEPT !.isReady = TRUE]]
            readyState == [gs EXCEPT !.players = updatedPlayers]
            allReady == \A i \in 1..Len(updatedPlayers) : updatedPlayers[i].isReady
        IN  IF allReady /\ Len(updatedPlayers) = RequiredPlayers(gs.mode)
              THEN startGame(readyState, r)
            ELSE readyState

\* playCard without its turn check
playCardAnyTurn(gs, playerId, cardId) == processPlayedCard(gs, playerId, cardId)

playCard(gs, playerId, cardId) ==
    IF gs.currentPlayer # playerId THEN gs
    ELSE processPlayedCard(gs, playerId, cardId)

requestTruco(gs, playerId) == processTrucoRequest(gs, playerId)

acceptTruco(gs) == acceptTrucoRequest(gs)

declineTruco(gs) == declineTrucoRequest(gs)

\* Map.set(key, value): a new key goes last, a known key keeps its place
MapSet(map, key, value) ==
    IF \E i \in 1..Len(map) : map[i].id = key
      THEN [i \in 1..Len(map) |->
              IF map[i].id = key THEN [id |-> key, username |-> value] ELSE map[i]]
    ELSE Append(map, [id |-> key, username |-> value])

\* Map.delete(key)
MapDelete(map, key) == SelectSeq(map, LAMBDA e : e.id # key)

\* markPlayerDisconnected: the name table afterwards
markedNames(gs, names, playerId) ==
    IF HasPlayer(gs.players, playerId)
      THEN MapSet(names, playerId, FindPlayer(gs.players, playerId).username)
    ELSE names

\* markPlayerDisconnected: the game state afterwards
markPlayerDisconnected(gs, playerId) ==
    IF gs.roundState = PLAYING
      THEN [gs EXCEPT !.players = [i \in 1..Len(gs.players) |->
                IF gs.players[i].id = playerId
                  THEN [gs.players[i] EXCEPT !.isDisconnected = TRUE]
                ELSE gs.players[i]]]
    ELSE removePlayer(gs, playerId)

\* the first key of the name table whose value is username (NullId: none)
foundPlayerId(names, username) ==
    LET hits == SelectSeq(names, LAMBDA e : e.username = username)
    IN  IF Len(hits) = 0 THEN NullId ELSE hits[1].id

\* reconnectPlayer: the game state afterwards, for a found id
reconnectPlayer(gs, found, socketId, username) ==
    [gs EXCEPT
        !.players = [i \in 1..Len(gs.players) |->
            IF gs.players[i].username = username
              THEN [gs.players[i] EXCEPT !.id = socketId, !.isDisconnected = FALSE]
            ELSE gs.players[i]],
        !.currentPlayer = IF gs.currentPlayer = found THEN socketId ELSE gs.currentPlayer,
        !.dealer = IF gs.dealer = found THEN socketId ELSE gs.dealer,
        !.trucoRequestedBy =
            IF gs.trucoRequestedBy = found THEN socketId ELSE gs.trucoRequestedBy]

\* --------------------------------------------------------- socket handlers

\* the card ids a PLAY_CARD message may name: every id in some hand, and the
\* id of the turned card (an id that is in no hand)
CardIds(gs) ==
    UNION {{gs.players[i].hand[k].id : k \in 1..Len(gs.players[i].hand)}
             : i \in 1..Len(gs.players)}
    \cup {IF gs.vira = NoCard THEN 40 ELSE gs.vira.id}

\* A round begins with a deal, or (a decline outside PLAYING) without one;
\* a step that begins a round counts against the scope's rounds.
Begin(began) ==
    /\ began => rounds < scope.rounds
    /\ rounds' = IF began THEN rounds + 1 ELSE rounds

\* the step dealt the cards: the round is PLAYING afterwards, and it was not
\* before, or a hand or the current trick changed
Dealt(gs, next) ==
    /\ next.roundState = PLAYING
    /\ \/ gs.roundState # PLAYING
       \/ gs.currentTrick # next.currentTrick
       \/ \E i \in 1..Len(gs.players) : gs.players[i].hand # next.players[i].hand

\* History for the reconnection claims: the records of the seats that
\* dropped in this PLAYING round and are still marked disconnected in gs.
StillDropped(gs, records) ==
    {d \in records :
        /\ gs.roundState = PLAYING
        /\ \E i \in 1..Len(gs.players) :
              gs.players[i].id = d.id /\ gs.players[i].isDisconnected}

\* the record of the seat playerId names, as it is when it drops
DropRecord(gs, playerId) ==
    IF HasPlayer(gs.players, playerId)
      THEN {[id |-> playerId,
             hand |-> FindPlayer(gs.players, playerId).hand,
             team |-> FindPlayer(gs.players, playerId).team,
             turn |-> (gs.currentPlayer = playerId)]}
    ELSE {}

\* no rule function is being applied
NoRules ==
    [vira |-> NoCard, card1 |-> NoCard, card2 |-> NoCard, applied |-> "none",
     manilha |-> "none", compared |-> 0, winner |-> NullId]

\* some seat of gs belongs to one of the open connections socks
SomeSeatLive(gs, socks) ==
    \E i \in 1..Len(gs.players) : gs.players[i].id \in socks

\* the time without a live seat, after a step that takes no time
StillQuiet(gs, socks, q) == IF SomeSeatLive(gs, socks) THEN 0 ELSE q

Init ==
    /\ scope \in Scopes
    /\ gameState = initializeGameState(scope.mode, <<>>)
    /\ disconnectedPlayers = <<>>
    /\ registered = TRUE
    /\ sockets = {}
    /\ issued = 0
    /\ rounds = 0
    /\ plays = 0
    /\ requests = 0
    /\ drops = 0
    /\ dropped = {}
    /\ timers = <<>>
    /\ quiet = 0
    /\ spared = FALSE
    /\ rules = NoRules

\* io.on('connection'): a new connection with a fresh id
Connect ==
    /\ issued < scope.sockets
    /\ Cardinality({s \in sockets : ~HasPlayer(gameState.players, s)}) < MaxIdle
    /\ issued' = issued + 1
    /\ sockets' = sockets \cup {issued + 1}
    /\ UNCHANGED <<gameState, disconnectedPlayers, registered, counters>>
    /\ dropped' = StillDropped(gameState', dropped)
    /\ timers' = timers
    /\ quiet' = StillQuiet(gameState', sockets', quiet)
    /\ UNCHANGED <<spared, rules>>

\* CREATE_GAME's and JOIN_GAME's addPlayer
JoinGame(s, username) ==
    /\ registered
    /\ gameState' = IF isGameFull(gameState) THEN gameState
                    ELSE addPlayer(gameState, s, username)
    /\ UNCHANGED <<disconnectedPlayers, registered, sockets, issued, counters>>
    /\ dropped' = StillDropped(gameState', dropped)
    /\ timers' = timers
    /\ quiet' = StillQuiet(gameState', sockets', quiet)
    /\ UNCHANGED <<spared, rules>>

LeaveGame(s) ==
    /\ registered
    /\ gameState' = removePlayer(gameState, s)
    /\ registered' = (getPlayerCount(gameState') # 0)
    /\ UNCHANGED <<disconnectedPlayers, sockets, issued, counters>>
    /\ dropped' = StillDropped(gameState', dropped)
    /\ timers' = timers
    /\ quiet' = StillQuiet(gameState', sockets', quiet)
    /\ UNCHANGED <<spared, rules>>

Ready(s, r) ==
    /\ registered
    /\ gameState' = setPlayerReady(gameState, s, r)
    /\ Begin(Dealt(gameState, gameState'))
    /\ UNCHANGED <<disconnectedPlayers, registered, sockets, issued, scope,
                   plays, requests, drops>>
    /\ dropped' = StillDropped(gameState', dropped)
    /\ timers' = timers
    /\ quiet' = StillQuiet(gameState', sockets', quiet)
    /\ UNCHANGED <<spared, rules>>

StartGame(s, r) ==
    /\ registered
    /\ gameState' = startGame(gameState, r)
    /\ Begin(Dealt(gameState, gameState'))
    /\ UNCHANGED <<disconnectedPlayers, registered, sockets, issued, scope,
                   plays, requests, drops>>
    /\ dropped' = StillDropped(gameState', dropped)
    /\ timers' = timers
    /\ quiet' = StillQuiet(gameState', sockets', quiet)
    /\ UNCHANGED <<spared, rules>>

PlayCard(s, cardId) ==
    /\ registered
    /\ gameState' = playCard(gameState, s, cardId)
    /\ gameState' # gameState => plays < scope.plays
    /\ plays' = IF gameState' # gameState THEN plays + 1 ELSE plays
    /\ UNCHANGED <<disconnectedPlayers, registered, sockets, issued, scope,
                   rounds, requests, drops>>
    /\ dropped' = StillDropped(gameState', dropped)
    /\ timers' = timers
    /\ quiet' = StillQuiet(gameState', sockets', quiet)
    /\ UNCHANGED <<spared, rules>>

RequestTruco(s) ==
    /\ registered
    /\ gameState' = requestTruco(gameState, s)
    /\ gameState' # gameState => requests < scope.requests
    /\ requests' = IF gameState' # gameState THEN requests + 1 ELSE requests
    /\ UNCHANGED <<disconnectedPlayers, registered, sockets, issued, scope,
                   rounds, plays, drops>>
    /\ dropped' = StillDropped(gameState', dropped)
    /\ timers' = timers
    /\ quiet' = StillQuiet(gameState', sockets', quiet)
    /\ UNCHANGED <<spared, rules>>

AcceptTruco(s) ==
    /\ registered
    /\ gameState' = acceptTruco(gameState)
    /\ UNCHANGED <<disconnectedPlayers, registered, sockets, issued, counters>>
    /\ dropped' = StillDropped(gameState', dropped)
    /\ timers' = timers
    /\ quiet' = StillQuiet(gameState', sockets', quiet)
    /\ UNCHANGED <<spared, rules>>

DeclineTruco(s) ==
    /\ registered
    /\ gameState' = declineTruco(gameState)
    /\ Begin(gameState' # gameState /\ gameState.roundState # PLAYING)
    /\ UNCHANGED <<disconnectedPlayers, registered, sockets, issued, scope,
                   plays, requests, drops>>
    /\ dropped' = StillDropped(gameState', dropped)
    /\ timers' = timers
    /\ quiet' = StillQuiet(gameState', sockets', quiet)
    /\ UNCHANGED <<spared, rules>>

StartNewRound(s, r) ==
    /\ registered
    /\ gameState' = startNewRound(gameState, r)
    /\ Begin(Dealt(gameState, gameState'))
    /\ UNCHANGED <<disconnectedPlayers, registered, sockets, issued, scope,
                   plays, requests, drops>>
    /\ dropped' = StillDropped(gameState', dropped)
    /\ timers' = timers
    /\ quiet' = StillQuiet(gameState', sockets', quiet)
    /\ UNCHANGED <<spared, rules>>

\* socket.on('disconnect')
Disconnect(s) ==
    /\ drops < scope.drops
    /\ drops' = drops + 1
    /\ sockets' = sockets \ {s}
    /\ IF registered /\ HasPlayer(gameState.players, s)
         THEN /\ disconnectedPlayers' = markedNames(gameState, disconnectedPlayers, s)
              /\ gameState' = markPlayerDisconnected(gameState, s)
       ELSE UNCHANGED <<gameState, disconnectedPlayers>>
    /\ UNCHANGED <<registered, issued, scope, rounds, plays, requests>>
    /\ dropped' = StillDropped(gameState', dropped \cup DropRecord(gameState, s))
    /\ timers' = IF registered /\ HasPlayer(gameState.players, s)
                    /\ getConnectedPlayerCount(gameState') = 0
                  THEN Append(timers, GraceWindow)
                ELSE timers
    /\ quiet' = StillQuiet(gameState', sockets', quiet)
    /\ UNCHANGED <<spared, rules>>

\* socket.on('reconnect_game')
ReconnectGame(s, username) ==
    /\ registered
    /\ LET found == foundPlayerId(disconnectedPlayers, username)
       IN  IF found # NullId
             THEN /\ gameState' = reconnectPlayer(gameState, found, s, username)
                  /\ disconnectedPlayers' = MapDelete(disconnectedPlayers, found)
           ELSE /\ gameState' = addPlayer(gameState, s, username)
                /\ UNCHANGED disconnectedPlayers
    /\ UNCHANGED <<registered, sockets, issued, counters>>
    /\ dropped' = StillDropped(gameState', dropped)
    /\ timers' = timers
    /\ quiet' = StillQuiet(gameState', sockets', quiet)
    /\ UNCHANGED <<spared, rules>>

\* time passes, by d, up to the next deadline at most
Tick(d) ==
    /\ timers # <<>>
    /\ d > 0
    /\ d <= timers[1]
    /\ timers' = [i \in 1..Len(timers) |-> timers[i] - d]
    /\ quiet' = IF SomeSeatLive(gameState, sockets) THEN 0
                ELSE IF quiet + d > GraceWindow THEN GraceWindow
                ELSE quiet + d
    /\ UNCHANGED <<gameState, disconnectedPlayers, registered, sockets, issued,
                   counters, dropped, spared, rules>>

\* the callback without its second look at the connected seats
removeAlways(gs, inRegistry) == FALSE

\* the callback of the disconnect handler's setTimeout: whether the match
\* is in the registry afterwards
removeIfEmpty(gs, inRegistry) ==
    IF getConnectedPlayerCount(gs) = 0 THEN FALSE ELSE inRegistry

TimerFire ==
    /\ timers # <<>>
    /\ timers[1] = 0
    /\ timers' = Tail(timers)
    /\ registered' = removeIfEmpty(gameState, registered)
    /\ spared' = (spared \/ (registered /\ registered'))
    /\ UNCHANGED <<gameState, disconnectedPlayers, sockets, issued, counters,
                   dropped, quiet, rules>>

\* every intent comes from an open connection
Next ==
    \/ Connect
    \/ \E s \in sockets : \E username \in scope.names[s] : JoinGame(s, username)
    \/ \E s \in sockets : LeaveGame(s)
    \/ \E s \in sockets, r \in 1..scope.shuffles : Ready(s, r)
    \/ \E s \in sockets, r \in 1..scope.shuffles : StartGame(s, r)
    \/ \E s \in sockets : \E cardId \in CardIds(gameState) : PlayCard(s, cardId)
    \/ \E s \in sockets : RequestTruco(s)
    \/ \E s \in sockets : AcceptTruco(s)
    \/ \E s \in sockets : DeclineTruco(s)
    \/ \E s \in sockets, r \in 1..scope.shuffles : StartNewRound(s, r)
    \/ \E s \in sockets : Disconnect(s)
    \/ \E s \in sockets : \E username \in scope.names[s] : ReconnectGame(s, username)
    \/ \E d \in {TickStep, IF timers # <<>> THEN timers[1] ELSE 0} : Tick(d)
    \/ TimerFire

Spec == Init /\ [][Next]_vars

\* ------------------------------------------------------- the rule functions

\* The rule functions are pure: they are applied to every turned card and
\* every two cards of the deck, the match left as Init has it.
Deck == Range(createDeck)

RulesInit ==
    /\ scope = CHOOSE x \in Scopes : x.name = "stakes"
    /\ gameState = initializeGameState(scope.mode, <<>>)
    /\ disconnectedPlayers = <<>>
    /\ registered = TRUE
    /\ sockets = {}
    /\ issued = 0
    /\ rounds = 0
    /\ plays = 0
    /\ requests = 0
    /\ drops = 0
    /\ dropped = {}
    /\ timers = <<>>
    /\ quiet = 0
    /\ spared = FALSE
    /\ \E vira \in Deck, card1 \in Deck, card2 \in Deck :
          rules = [NoRules EXCEPT !.vira = vira, !.card1 = card1, !.card2 = card2]

\* the variables of the match
match == <<gameState, disconnectedPlayers, registered, sockets, issued,
           counters, dropped, timers, quiet, spared>>

\* the trick in which seat 1 played card1 and then seat 2 played card2
TrickOf(card1, card2) ==
    <<[playerId |-> 1, card |-> card1], [playerId |-> 2, card |-> card2]>>

ApplyGetManilhaValue ==
    /\ rules.applied = "none"
    /\ rules' = [rules EXCEPT !.applied = "getManilhaValue",
                              !.manilha = getManilhaValue(rules.vira)]
    /\ UNCHANGED match

ApplyCompareCards ==
    /\ rules.applied = "none"
    /\ rules' = [rules EXCEPT !.applied = "compareCards",
                              !.compared = compareCards(rules.card1, rules.card2, rules.vira)]
    /\ UNCHANGED match

ApplyDetermineTrickWinner ==
    /\ rules.applied = "none"
    /\ rules.card1 # rules.card2
    /\ rules' = [rules EXCEPT !.applied = "determineTrickWinner",
                              !.winner = determineTrickWinner(
                                  TrickOf(rules.card1, rules.card2), rules.vira)]
    /\ UNCHANGED match

RulesNext ==
    \/ ApplyGetManilhaValue
    \/ ApplyCompareCards
    \/ ApplyDetermineTrickWinner

RulesSpec == RulesInit /\ [][RulesNext]_vars

\* Time passes and an expired timer runs its callback: the event loop runs
\* every due setTimeout callback.  Nothing obliges a client to act.
FairSpec ==
    /\ Spec
    /\ WF_vars(\E d \in {TickStep, IF timers # <<>> THEN timers[1] ELSE 0} : Tick(d))
    /\ WF_vars(TimerFire)

\* ------------------------------------------------------------------ claims

\* the escalation ladder
Ladder == {1, 3, 6, 9, 12}

\* the indices of the seats
Seats(gs) == 1..Len(gs.players)

ScoreOf(gs, team) == IF team = "A" THEN gs.teamAScore ELSE gs.teamBScore

OtherTeam(team) == IF team = "A" THEN "B" ELSE "A"

\* the round state is one of the two a finished round leaves
Finished(gs) == gs.roundState \in {ROUND_OVER, GAME_OVER}

\* C1: the stake is always one of 1, 3, 6, 9, 12, and no step that stays
\* inside a PLAYING round lowers it (an accept at 12 included).
C1_StakeNeverLowered ==
    [][ /\ gameState.roundValue \in Ladder
        /\ gameState'.roundValue \in Ladder
        /\ (gameState.roundState = PLAYING /\ gameState'.roundState = PLAYING)
              => gameState'.roundValue >= gameState.roundValue ]_vars

\* what C2 says of the state `next` a decline leaves after `gs`
DeclineOutcome(gs, next) ==
    /\ HasPlayer(gs.players, gs.trucoRequestedBy)
    /\ LET team == FindPlayer(gs.players, gs.trucoRequestedBy).team
       IN  /\ ScoreOf(next, team) = ScoreOf(gs, team) + gs.roundValue
           /\ ScoreOf(next, OtherTeam(team)) = ScoreOf(gs, OtherTeam(team))
           /\ next.roundWinner = team
    /\ next.dealer = NextSeatId(gs.players, PlayerIndex(gs.players, gs.dealer))
    /\ \A i \in Seats(next) : next.players[i].hand = <<>>
    /\ Finished(next)

\* C2: in a PLAYING round with a request pending, a decline ends the round:
\* the requester's team gains the stake in force, the other team nothing,
\* roundWinner is the requester's team, the dealer advances one seat, every
\* hand is cleared and the state is ROUND_OVER or GAME_OVER.
C2_DeclineEndsRound ==
    (gameState.roundState = PLAYING /\ gameState.trucoRequested)
        => DeclineOutcome(gameState, declineTruco(gameState))

\* stake, pending request and both scores are the same in gs and next
SameStakes(gs, next) ==
    /\ next.roundValue = gs.roundValue
    /\ next.trucoRequested = gs.trucoRequested
    /\ next.trucoRequestedBy = gs.trucoRequestedBy
    /\ next.teamAScore = gs.teamAScore
    /\ next.teamBScore = gs.teamBScore

\* the seats of the requester's team (the requester among them)
RequesterTeam(gs) ==
    {i \in Seats(gs) :
        /\ HasPlayer(gs.players, gs.trucoRequestedBy)
        /\ gs.players[i].team = FindPlayer(gs.players, gs.trucoRequestedBy).team}

\* C3: in a PLAYING round with a request pending, an accept or a decline
\* sent by a seat of the requester's team leaves the stake, the pending
\* request and both scores as they were.
C3_OnlyOpponentsResolve ==
    (gameState.roundState = PLAYING /\ gameState.trucoRequested)
        => \A i \in RequesterTeam(gameState) :
              /\ gameState.players[i].id \in sockets
                    => SameStakes(gameState, acceptTruco(gameState))
              /\ gameState.players[i].id \in sockets
                    => SameStakes(gameState, declineTruco(gameState))

\* C4: outside a PLAYING round a request from any seat leaves the match
\* state unchanged, and no request is pending there.
C4_RequestOnlyWhilePlaying ==
    gameState.roundState # PLAYING
        => /\ ~gameState.trucoRequested
           /\ \A i \in Seats(gameState) :
                 requestTruco(gameState, gameState.players[i].id) = gameState

\* the pending flag is set exactly when a requester is recorded
PendingIffRequester(gs) ==
    gs.trucoRequested <=> (gs.trucoRequestedBy # NullId /\ gs.trucoRequestedBy # NoId)

\* C5: in a PLAYING round a request at stake 12 leaves the state unchanged;
\* a request while one is pending leaves the requester unchanged; the
\* pending flag is set exactly when a requester is recorded.
C5_RequestRejectedAtTwelve ==
    /\ PendingIffRequester(gameState)
    /\ gameState.roundState = PLAYING
        => \A i \in Seats(gameState) :
              LET next == requestTruco(gameState, gameState.players[i].id)
              IN  /\ gameState.roundValue = 12 => next = gameState
                  /\ gameState.trucoRequested
                        => next.trucoRequestedBy = gameState.trucoRequestedBy
                  /\ PendingIffRequester(next)

\* what C6 says of a round finish that takes gs to next, won by team
AwardedTo(gs, next, team) ==
    /\ ScoreOf(next, team) = ScoreOf(gs, team) + gs.roundValue
    /\ ScoreOf(next, OtherTeam(team)) = ScoreOf(gs, OtherTeam(team))
    /\ IF ScoreOf(next, team) >= WinScore
         THEN next.roundState = GAME_OVER /\ next.winner = team
       ELSE next.roundState = ROUND_OVER /\ next.winner = "null"

\* C6: every step that finishes a PLAYING round (by tricks or by decline)
\* raises exactly one team's score, by the stake in force, and leaves
\* GAME_OVER with that team as winner if its new score is at least 12,
\* ROUND_OVER with no winner otherwise.
C6_RoundFinishAward ==
    [][ (gameState.roundState = PLAYING /\ Finished(gameState'))
            => \E team \in {"A", "B"} : AwardedTo(gameState, gameState', team) ]_vars

\* C7: a step taken in GAME_OVER changes neither the round state, nor a
\* score, nor the winner, unless it is a reset to WAITING_FOR_PLAYERS with
\* both scores 0.
C7_GameOverTerminal ==
    [][ gameState.roundState = GAME_OVER
            => \/ /\ gameState'.roundState = GAME_OVER
                  /\ gameState'.teamAScore = gameState.teamAScore
                  /\ gameState'.teamBScore = gameState.teamBScore
                  /\ gameState'.winner = gameState.winner
               \/ /\ gameState'.roundState = WAITING_FOR_PLAYERS
                  /\ gameState'.teamAScore = 0
                  /\ gameState'.teamBScore = 0 ]_vars

\* the trick history once the seat to play has completed the current trick
\* with card
TricksWith(gs, card) ==
    Append(gs.tricks,
           Append(gs.currentTrick, [playerId |-> gs.currentPlayer, card |-> card]))

\* C8: while a round is PLAYING no team has 2 trick wins and fewer than 3
\* tricks are recorded; a card that completes a trick ends the round exactly
\* when a team then has 2 trick wins or 3 tricks are played; and when 3
\* tricks are played the two tallies used for scoring sum to 3.
C8_RoundEndsByTricks ==
    gameState.roundState = PLAYING
        => /\ Len(gameState.tricks) < 3
           /\ TeamTricks(gameState, gameState.tricks, "A") < 2
           /\ TeamTricks(gameState, gameState.tricks, "B") < 2
           /\ ( /\ HasPlayer(gameState.players, gameState.currentPlayer)
                /\ Len(gameState.currentTrick) + 1 = Len(gameState.players) )
                 => LET hand == FindPlayer(gameState.players, gameState.currentPlayer).hand
                    IN  \A k \in 1..Len(hand) :
                          LET next == playCard(gameState, gameState.currentPlayer, hand[k].id)
                              tricks == TricksWith(gameState, hand[k])
                              teamATricks == TeamTricks(gameState, tricks, "A")
                              teamBTricks == TeamTricks(gameState, tricks, "B")
                          IN  /\ Finished(next)
                                    <=> \/ teamATricks >= 2
                                        \/ teamBTricks >= 2
                                        \/ Len(tricks) = 3
                              /\ Len(tricks) = 3 => teamATricks + teamBTricks = 3

\* the cards of the trick that playerId played
PlayedIn(trick, playerId) ==
    Len(SelectSeq(trick, LAMBDA played : played.playerId = playerId))

\* the cards playerId played in this round: current trick and trick history
PlayedBy(gs, playerId) ==
    LET Sum[n \in 0..Len(gs.tricks)] ==
            IF n = 0 THEN 0 ELSE Sum[n - 1] + PlayedIn(gs.tricks[n], playerId)
    IN  PlayedIn(gs.currentTrick, playerId) + Sum[Len(gs.tricks)]

\* C9: while a round is PLAYING, every seat's hand size plus the number of
\* cards it has played in the round (current trick and history) is 3.
C9_HandPlusPlayedIsThree ==
    gameState.roundState = PLAYING
        => \A i \in Seats(gameState) :
              Len(gameState.players[i].hand)
                + PlayedBy(gameState, gameState.players[i].id) = HandSize

\* C10: while a round is PLAYING exactly one seat has its turn flag set, and
\* it is the seat currentPlayer names.
C10_OneTurnHolder ==
    gameState.roundState = PLAYING
        => /\ Cardinality({i \in Seats(gameState) : gameState.players[i].isYourTurn}) = 1
           /\ \A i \in Seats(gameState) :
                 gameState.players[i].isYourTurn
                    => gameState.players[i].id = gameState.currentPlayer


\* the seat (0-based) after the seat index names, cyclically
SeatAfter(gs, index) == (index + 1) % Len(gs.players)

\* C11: every step that finishes a PLAYING round (by tricks or by decline)
\* moves the dealer pointer from the seat it names to the next seat in table
\* order, wrapping from the last seat to seat 0.
C11_DealerAdvancesOneSeat ==
    [][ (gameState.roundState = PLAYING /\ Finished(gameState'))
            => /\ HasPlayer(gameState.players, gameState.dealer)
               /\ PlayerIndex(gameState'.players, gameState'.dealer)
                    = SeatAfter(gameState,
                                PlayerIndex(gameState.players, gameState.dealer)) ]_vars

\* the connection ids an intent may come from: every id handed out so far,
\* seated or not, open or closed
Issued == 1..issued

\* cardId is in the hand of the seat the engine finds for playerId
InHandOf(gs, playerId, cardId) ==
    /\ HasPlayer(gs.players, playerId)
    /\ CardIndex(FindPlayer(gs.players, playerId).hand, cardId) # -1

\* C12: a play-card from an id that is not the current-turn pointer, from an
\* id that is not a seat, or naming a card that is not in the acting seat's
\* hand leaves the whole match state unchanged; so does a stake request from
\* an id that is not a seat.
C12_IllegalPlayIsNoOp ==
    \A s \in Issued :
        /\ \A cardId \in CardIds(gameState) :
              ( \/ s # gameState.currentPlayer
                \/ ~HasPlayer(gameState.players, s)
                \/ ~InHandOf(gameState, s, cardId) )
                 => playCard(gameState, s, cardId) = gameState
        /\ ~HasPlayer(gameState.players, s)
              => requestTruco(gameState, s) = gameState

\* C12 witness: a PLAYING round with a card on the table, where a seat that
\* does not hold the turn has cards in hand and an open connection has no seat
C12_Witness ==
    /\ gameState.roundState = PLAYING
    /\ Len(gameState.currentTrick) = 1
    /\ \E s \in sockets : ~HasPlayer(gameState.players, s)
    /\ \E i \in Seats(gameState) :
          /\ gameState.players[i].id # gameState.currentPlayer
          /\ Len(gameState.players[i].hand) > 0

\* C13: while a round is PLAYING the number of seats is the mode's required
\* count (2 for 1v1, 4 for 2v2).
C13_NoPartialDeal ==
    gameState.roundState = PLAYING
        => Len(gameState.players) = RequiredPlayers(gameState.mode)

\* the step is a deal: START_GAME, READY or start_new_round dealt the cards
DealStep ==
    /\ Dealt(gameState, gameState')
    /\ \E s \in sockets, r \in 1..scope.shuffles :
          StartGame(s, r) \/ Ready(s, r) \/ StartNewRound(s, r)

\* what C14 says of the state a deal leaves
FreshRound(gs) ==
    /\ \A i \in Seats(gs) : Len(gs.players[i].hand) = HandSize
    /\ gs.roundValue = 1
    /\ gs.currentTrick = <<>>
    /\ gs.tricks = <<>>
    /\ ~gs.trucoRequested
    /\ HasPlayer(gs.players, gs.dealer)
    /\ gs.currentPlayer
          = gs.players[SeatAfter(gs, PlayerIndex(gs.players, gs.dealer)) + 1].id

\* C14: right after every deal (by start-match, by the auto-start of
\* mark-ready, or by start-next-round) every seat holds 3 cards, the stake is
\* 1, the current trick and the trick history are empty, no request is
\* pending and the turn is with the seat after the dealer.
C14_FreshRoundAfterDeal ==
    [][ DealStep => FreshRound(gameState') ]_vars

\* what C15 says of the state start-next-round leaves after ROUND_OVER
NextRoundDealt(gs, next) ==
    /\ next.roundState = PLAYING
    /\ \A i \in Seats(next) : Len(next.players[i].hand) = HandSize
    /\ next.currentTrick = <<>>
    /\ next.tricks = <<>>
    /\ next.roundValue = 1
    /\ ~next.trucoRequested
    /\ next.trucoRequestedBy = NullId
    /\ next.roundWinner = "null"
    /\ next.teamAScore = gs.teamAScore
    /\ next.teamBScore = gs.teamBScore

\* C15: start-next-round leaves the state unchanged in WAITING_FOR_PLAYERS,
\* PLAYING and GAME_OVER; from ROUND_OVER it leaves a freshly dealt PLAYING
\* round with stake 1, no request pending, roundWinner cleared and both
\* scores as they were.
C15_NextRoundOnlyFromRoundOver ==
    \A r \in 1..scope.shuffles :
        IF gameState.roundState = ROUND_OVER
          THEN NextRoundDealt(gameState, startNewRound(gameState, r))
        ELSE startNewRound(gameState, r) = gameState

\* C15 witness: a second round dealt by start-next-round (a score was made,
\* and roundWinner is cleared, which no other deal does)
C15_Witness ==
    /\ gameState.roundState = PLAYING
    /\ gameState.teamAScore + gameState.teamBScore > 0
    /\ gameState.roundWinner = "null"
    /\ rounds = 2

\* the connection ids the cards of a trick were played under
TrickIds(trick) == {trick[k].playerId : k \in 1..Len(trick)}

\* every connection id the match state stores: the seat ids, the turn
\* pointer, the dealer pointer, the pending requester and the ids on the
\* cards played in the round
StoredIds(gs) ==
    {gs.players[i].id : i \in Seats(gs)}
        \cup {gs.currentPlayer, gs.dealer, gs.trucoRequestedBy}
        \cup TrickIds(gs.currentTrick)
        \cup UNION {TrickIds(gs.tricks[n]) : n \in 1..Len(gs.tricks)}

\* the step is a reconnect_game message
ReconnectStep == \E s \in sockets : \E username \in scope.names[s] : ReconnectGame(s, username)

\* C16: when a reconnect gives a disconnected seat a new connection id, the
\* old id is stored nowhere in the match state afterwards, and the turn
\* pointer, the dealer pointer and the pending requester name the new id
\* wherever they named the old one.
C16_ReconnectRewritesAllReferences ==
    [][ ReconnectStep
          => \A i \in Seats(gameState) :
                LET old == gameState.players[i].id
                    new == gameState'.players[i].id
                IN  (gameState.players[i].isDisconnected /\ new # old)
                      => /\ old \notin StoredIds(gameState')
                         /\ gameState.currentPlayer = old => gameState'.currentPlayer = new
                         /\ gameState.dealer = old => gameState'.dealer = new
                         /\ gameState.trucoRequestedBy = old
                               => gameState'.trucoRequestedBy = new ]_vars

\* what C17 says of seat i after a reconnect from connection s, d being the
\* record of what the seat had when it dropped
Restored(next, i, s, d) ==
    /\ next.players[i].hand = d.hand
    /\ next.players[i].team = d.team
    /\ d.turn => \A k \in 1..Len(d.hand) :
                    /\ playCard(next, s, d.hand[k].id) # next
                    /\ playCard(next, d.id, d.hand[k].id) = next

\* C17: a seat dropped during a PLAYING round and still marked disconnected;
\* when a connection reconnects under the seat's display name, the seat has
\* the hand and the team it had at the drop, and if it held the turn at the
\* drop a play-card from the new connection id is accepted and one from the
\* old id is not.
C17_ReconnectRestoresSeat ==
    [][ \A s \in sockets : \A username \in scope.names[s] :
          ReconnectGame(s, username)
            => \A i \in Seats(gameState) : \A d \in dropped :
                  ( /\ gameState.players[i].isDisconnected
                    /\ gameState.players[i].id = d.id
                    /\ gameState.players[i].username = username )
                    => Restored(gameState', i, s, d) ]_vars

\* C18: the seat ids of the match are pairwise distinct.
C18_NoDuplicateSeat ==
    \A i, k \in Seats(gameState) :
        i # k => gameState.players[i].id # gameState.players[k].id

\* the drop of connection s left the match as it was, the seat marked
Graceful(gs, next, s) ==
    /\ Len(next.players) = Len(gs.players)
    /\ \A i \in Seats(gs) :
          /\ next.players[i].id = gs.players[i].id
          /\ next.players[i].hand = gs.players[i].hand
          /\ next.players[i].team = gs.players[i].team
          /\ gs.players[i].id = s => next.players[i].isDisconnected
    /\ next.currentPlayer = gs.currentPlayer
    /\ next.roundValue = gs.roundValue
    /\ next.roundState = gs.roundState
    /\ next.teamAScore = gs.teamAScore
    /\ next.teamBScore = gs.teamBScore

\* C19: a transport drop of a seat while the match is in PLAYING or
\* ROUND_OVER keeps the seat in the seat list, marked disconnected, and
\* leaves the hands, the turn pointer, the stake, the round state and both
\* team scores as they were.
C19_DropInRoundIsGraceful ==
    [][ \A s \in sockets :
          ( /\ Disconnect(s)
            /\ registered
            /\ HasPlayer(gameState.players, s)
            /\ gameState.roundState \in {PLAYING, ROUND_OVER} )
            => Graceful(gameState, gameState', s) ]_vars

\* the team the rule gives the i-th seat (1-based) of the seat list
TeamAt(i) == IF (i - 1) % 2 = 0 THEN "A" ELSE "B"

\* the seats of gs other than those of connection s, in their order
Remaining(gs, s) == SelectSeq(gs.players, LAMBDA p : p.id # s)

\* the drop of connection s vacated its seat
Vacated(gs, next, s) ==
    /\ ~HasPlayer(next.players, s)
    /\ Len(next.players) = Len(gs.players) - 1
    /\ Len(next.players) = Len(Remaining(gs, s))
    /\ \A i \in Seats(next) :
          /\ next.players[i].id = Remaining(gs, s)[i].id
          /\ next.players[i].username = Remaining(gs, s)[i].username
          /\ next.players[i].team = TeamAt(i)
    /\ Len(next.players) > 0 => HasPlayer(next.players, next.dealer)

\* C20: a transport drop of a seat while the match is in
\* WAITING_FOR_PLAYERS removes the seat at once: the dropped id is no longer
\* seated, the seat count is one less, the remaining seats keep their order
\* with teams given by position, and the dealer pointer names a remaining
\* seat whenever one remains.
C20_DropWhileWaitingVacates ==
    [][ \A s \in sockets :
          ( /\ Disconnect(s)
            /\ registered
            /\ HasPlayer(gameState.players, s)
            /\ gameState.roundState = WAITING_FOR_PLAYERS )
            => Vacated(gameState, gameState', s) ]_vars

\* the match is back in the lobby: no scores, no cards, no winner
BackInLobby(gs) ==
    /\ gs.roundState = WAITING_FOR_PLAYERS
    /\ gs.teamAScore = 0
    /\ gs.teamBScore = 0
    /\ gs.winner = "null"
    /\ \A i \in Seats(gs) : gs.players[i].hand = <<>>

\* C21: after LEAVE_GAME from a seated connection its id is no longer in
\* the seat list; if the match was not in WAITING_FOR_PLAYERS it is also
\* reset to WAITING_FOR_PLAYERS with both scores 0, empty hands and no
\* winner.
C21_LeaveVacatesSeat ==
    [][ \A s \in sockets :
          (LeaveGame(s) /\ HasPlayer(gameState.players, s))
            => /\ ~HasPlayer(gameState'.players, s)
               /\ gameState.roundState # WAITING_FOR_PLAYERS
                    => BackInLobby(gameState') ]_vars

\* the timer callback takes the match out of the registry in this step
RemovedByTimer == TimerFire /\ registered /\ ~registered'

\* C22: whenever the removal timer removes the match, no seat of the match
\* has had an open connection during the GraceWindow time units before.
C22_RemovalOnlyAfterFullWindow ==
    [][ RemovedByTimer => quiet >= GraceWindow ]_vars

\* C23: when a removal timer expires while some seat of the match has an
\* open connection, the match stays in the registry.
C23_ConnectedSeatCancelsRemoval ==
    [][ (TimerFire /\ registered /\ SomeSeatLive(gameState, sockets))
          => registered' ]_vars

\* both seats of a dealt round dropped, one came back under a new
\* connection, and the timer expired without removing the match
C23_Witness ==
    /\ spared
    /\ registered
    /\ timers = <<>>
    /\ gameState.roundState = PLAYING
    /\ drops >= 2
    /\ SomeSeatLive(gameState, sockets)
    /\ \A i \in Seats(gameState) : gameState.players[i].id > 2

\* the match is in the registry, seats of it have dropped, and no seat has
\* an open connection
Abandoned ==
    /\ registered
    /\ ~SomeSeatLive(gameState, sockets)
    /\ Len(gameState.players) > 0 \/ disconnectedPlayers # <<>>

\* C24: once the connections of all seats have dropped, the match is
\* eventually removed from the registry unless a seat gets a connection
\* again.
C24_AbandonedMatchIsRemoved ==
    Abandoned ~> (~registered \/ SomeSeatLive(gameState, sockets))

\* the number of seats the mode allows
Capacity(mode) == IF mode = "1v1" THEN 2 ELSE 4

\* C25: the seat count never exceeds 2 (1v1) or 4 (2v2); adding a player
\* to a full match leaves the seat list unchanged; adding a connection that
\* is already seated adds no seat; and the seat at table position i
\* (counted from 0) is on team A when i is even and on team B when i is odd.
C25_JoinRespectsCapacityAndTeams ==
    /\ Len(gameState.players) <= Capacity(gameState.mode)
    /\ \A i \in Seats(gameState) : gameState.players[i].team = TeamAt(i)
    /\ \A s \in sockets : \A username \in scope.names[s] :
          /\ Len(gameState.players) = Capacity(gameState.mode)
               => addPlayer(gameState, s, username).players = gameState.players
          /\ HasPlayer(gameState.players, s)
               => Len(addPlayer(gameState, s, username).players)
                    = Len(gameState.players)

\* the match is full while an open connection holds no seat and another
\* one holds a seat
C25_Witness ==
    /\ Len(gameState.players) = Capacity(gameState.mode)
    /\ \E s \in sockets : ~HasPlayer(gameState.players, s)
    /\ \E s \in sockets : HasPlayer(gameState.players, s)

\* C26: the display names of the seats of the match are pairwise
\* distinct (a join under a name already seated is rejected).
C26_DisplayNamesDistinct ==
    \A i, k \in Seats(gameState) :
        i # k => gameState.players[i].username # gameState.players[k].username

\* the sign of an integer
Sign(n) == IF n > 0 THEN 1 ELSE IF n < 0 THEN -1 ELSE 0

\* C27: for every turned card compareCards is a strict total order on the
\* deck: for two distinct cards the result is non-zero and of the opposite
\* sign when the cards are exchanged, and the relation is transitive.
C27_CompareIsStrictTotalOrder ==
    rules.applied = "compareCards" =>
        /\ rules.card1 # rules.card2 =>
              /\ rules.compared # 0
              /\ Sign(compareCards(rules.card2, rules.card1, rules.vira))
                    = - Sign(rules.compared)
        /\ \A card3 \in Deck :
              (rules.compared > 0
                 /\ compareCards(rules.card2, card3, rules.vira) > 0)
                => compareCards(rules.card1, card3, rules.vira) > 0

\* C28: the winner of a trick does not depend on the order of its
\* entries: the trick of two distinct cards has the same winning seat when
\* its two entries are exchanged.
C28_TrickWinnerIgnoresOrder ==
    rules.applied = "determineTrickWinner" =>
        determineTrickWinner(
            <<TrickOf(rules.card1, rules.card2)[2],
              TrickOf(rules.card1, rules.card2)[1]>>, rules.vira) = rules.winner

\* the faces from the weakest to the strongest
FaceOrder == <<"4", "5", "6", "7", "Q", "J", "K", "A", "2", "3">>

\* the position of a face in FaceOrder
FacePosition(face) == CHOOSE i \in 1..Len(FaceOrder) : FaceOrder[i] = face

\* the face just above, the strongest face wrapping to the weakest
FaceAbove(face) == FaceOrder[(FacePosition(face) % Len(FaceOrder)) + 1]

\* the cards of the deck that are manilhas under vira
Manilhas(vira) == {card \in Deck : isManilha(card, vira)}

\* C29: for every turned card the manilha face is the face just above the
\* turned card's face in the order 4<5<6<7<Q<J<K<A<2<3, wrapping from 3 to
\* 4, never the turned card's own face, and exactly four cards of the deck
\* are manilhas: the four suits of that face.
C29_ManilhaIsNextFace ==
    rules.applied = "getManilhaValue" =>
        /\ rules.manilha = FaceAbove(rules.vira.value)
        /\ rules.manilha # rules.vira.value
        /\ Cardinality(Manilhas(rules.vira)) = 4
        /\ \A card \in Manilhas(rules.vira) : card.value = rules.manilha
        /\ {card.suit : card \in Manilhas(rules.vira)} = Range(Suits)

\* the turned card is a 3 and the manilha face wrapped around to 4
C29_Witness ==
    /\ rules.applied = "getManilhaValue"
    /\ rules.vira.value = "3"
    /\ rules.manilha = "4"

\* the suits of the manilhas from the weakest to the strongest
TrumpSuitOrder == <<"diamonds", "spades", "hearts", "clubs">>

SuitPosition(suit) == CHOOSE i \in 1..Len(TrumpSuitOrder) : TrumpSuitOrder[i] = suit

\* the card is of the face just above the turned card's face
IsTrump(card, vira) == card.value = FaceAbove(vira.value)

\* C30: compareCards ranks by the rules: a trump card beats a card that is
\* not trump; of two trump cards the one of the higher suit in
\* clubs > hearts > spades > diamonds wins; of two cards that are not trump
\* and differ in face the one of the higher face in
\* 3 > 2 > A > K > J > Q > 7 > 6 > 5 > 4 wins.
C30_CompareFollowsRanking ==
    rules.applied = "compareCards" =>
        LET trump1 == IsTrump(rules.card1, rules.vira)
            trump2 == IsTrump(rules.card2, rules.vira)
        IN  /\ (trump1 /\ ~trump2) => rules.compared > 0
            /\ (~trump1 /\ trump2) => rules.compared < 0
            /\ (trump1 /\ trump2 /\ rules.card1.suit # rules.card2.suit) =>
                  Sign(rules.compared)
                    = Sign(SuitPosition(rules.card1.suit) - SuitPosition(rules.card2.suit))
            /\ (~trump1 /\ ~trump2 /\ rules.card1.value # rules.card2.value) =>
                  Sign(rules.compared)
                    = Sign(FacePosition(rules.card1.value) - FacePosition(rules.card2.value))

\* turned card 4 of clubs: 5 of hearts, a trump card, was compared with
\* 3 of spades and won
C30_Witness ==
    /\ rules.applied = "compareCards"
    /\ rules.vira.value = "4" /\ rules.vira.suit = "clubs"
    /\ rules.card1.value = "5" /\ rules.card1.suit = "hearts"
    /\ rules.card2.value = "3" /\ rules.card2.suit = "spades"
    /\ rules.compared > 0

\* the cards lie in next as they lie in gs
SameDeal(gs, next) ==
    /\ Len(next.players) = Len(gs.players)
    /\ \A i \in Seats(gs) : next.players[i].hand = gs.players[i].hand
    /\ next.currentTrick = gs.currentTrick
    /\ next.tricks = gs.tricks
    /\ next.vira = gs.vira
    /\ next.currentPlayer = gs.currentPlayer

\* C31: START_GAME and READY deal only from WAITING_FOR_PLAYERS: sent
\* while the round is PLAYING, ROUND_OVER or GAME_OVER they leave the
\* hands, the current trick, the trick history, the turned card and the
\* turn pointer unchanged.
C31_NoRedealOutsideWaiting ==
    [][ \A s \in sockets : \A r \in 1..scope.shuffles :
          ( /\ StartGame(s, r) \/ Ready(s, r)
            /\ gameState.roundState \in {PLAYING, ROUND_OVER, GAME_OVER} )
            => SameDeal(gameState, gameState') ]_vars

\* the card with id cardId in the hand of the seat the engine finds for s
CardPlayed(gs, s, cardId) ==
    FindPlayer(gs.players, s).hand[CardIndex(FindPlayer(gs.players, s).hand, cardId) + 1]

\* the current trick with the card of s added
TrickAfter(gs, s, cardId) ==
    Append(gs.currentTrick, [playerId |-> s, card |-> CardPlayed(gs, s, cardId)])

\* playerId played a card of trick that no card of the trick beats
PlayedMaximal(trick, playerId, vira) ==
    \E k \in 1..Len(trick) :
        /\ trick[k].playerId = playerId
        /\ \A m \in 1..Len(trick) : compareCards(trick[m].card, trick[k].card, vira) <= 0

\* C32: an accepted play-card that leaves the trick incomplete passes the
\* turn to the next seat in table order (cyclic); one that completes the
\* trick while the round goes on empties the current trick, adds exactly
\* that trick to the trick history and passes the turn to the seat whose
\* card is maximal in that trick.
C32_TurnOrderWithinRound ==
    [][ \A s \in sockets : \A cardId \in CardIds(gameState) :
          ( /\ gameState.roundState = PLAYING
            /\ gameState.currentPlayer = s
            /\ InHandOf(gameState, s, cardId)
            /\ PlayCard(s, cardId) )
            => LET trick == TrickAfter(gameState, s, cardId)
                   seats == Len(gameState.players)
               IN  /\ Len(trick) < seats
                        => /\ gameState'.currentTrick = trick
                           /\ gameState'.currentPlayer
                                = gameState.players[
                                    SeatAfter(gameState, PlayerIndex(gameState.players, s)) + 1].id
                   /\ (Len(trick) >= seats /\ gameState'.roundState = PLAYING)
                        => /\ gameState'.currentTrick = <<>>
                           /\ gameState'.tricks = Append(gameState.tricks, trick)
                           /\ PlayedMaximal(trick, gameState'.currentPlayer, gameState.vira) ]_vars

\* the step finishes a round: the match is ROUND_OVER or GAME_OVER
\* afterwards and it was not before, or a score changed
RoundFinishStep ==
    /\ Finished(gameState')
    /\ \/ ~Finished(gameState)
       \/ gameState'.teamAScore # gameState.teamAScore
       \/ gameState'.teamBScore # gameState.teamBScore

\* nothing of the round is left in gs
RoundCleared(gs) ==
    /\ \A i \in Seats(gs) : gs.players[i].hand = <<>> /\ ~gs.players[i].isYourTurn
    /\ gs.currentTrick = <<>>
    /\ gs.tricks = <<>>
    /\ gs.roundValue = 1
    /\ ~gs.trucoRequested
    /\ gs.trucoRequestedBy = NullId

\* C33: right after every round finish, by tricks or by decline, to
\* ROUND_OVER or to GAME_OVER, every hand is empty, no seat has the turn
\* flag, the current trick and the trick history are empty, the stake is 1
\* and no stake request is pending.
C33_RoundFinishClearsRound ==
    [][ RoundFinishStep => RoundCleared(gameState') ]_vars

\* a round of six plays was finished by its last trick while a stake
\* request, never accepted nor declined, was pending
C33_Witness ==
    /\ gameState.roundState = ROUND_OVER
    /\ rounds = 1
    /\ plays = 6
    /\ requests = 1
    /\ gameState.teamAScore + gameState.teamBScore = 1
    /\ RoundCleared(gameState)

\* the cards of the entries of a trick, in order
TrickCards(trick) == [k \in 1..Len(trick) |-> trick[k].card]

RECURSIVE Flatten(_)
\* the concatenation of a sequence of sequences
Flatten(seqs) == IF seqs = <<>> THEN <<>> ELSE Head(seqs) \o Flatten(Tail(seqs))

\* every card of the round: the hands, the current trick, the trick history
RoundCards(gs) ==
    Flatten([i \in Seats(gs) |-> gs.players[i].hand])
        \o TrickCards(gs.currentTrick)
        \o Flatten([n \in 1..Len(gs.tricks) |-> TrickCards(gs.tricks[n])])

\* two cards are the same card of the deck
SameCard(a, b) == a.suit = b.suit /\ a.value = b.value

\* C34: from the deal on and throughout the PLAYING round no card is twice
\* among the hands and the cards played in the round, and the turned card
\* is none of them: the hands are disjoint, the turned card cannot be
\* played, no card is played twice.
C34_CardsOfRoundAreDistinct ==
    gameState.roundState = PLAYING =>
        LET cards == RoundCards(gameState)
        IN  /\ \A a, b \in 1..Len(cards) : a # b => ~SameCard(cards[a], cards[b])
            /\ \A a \in 1..Len(cards) : ~SameCard(cards[a], gameState.vira)

\* the ids of the seats of the match
SeatIds(gs) == {gs.players[i].id : i \in Seats(gs)}

\* C35: in every PLAYING state the current trick has fewer entries than
\* there are seats, and every entry of the current trick and of the trick
\* history carries the id of a seat of the match.
C35_FullTrickAlwaysResolved ==
    gameState.roundState = PLAYING =>
        /\ Len(gameState.currentTrick) < Len(gameState.players)
        /\ TrickIds(gameState.currentTrick) \subseteq SeatIds(gameState)
        /\ \A n \in 1..Len(gameState.tricks) :
              TrickIds(gameState.tricks[n]) \subseteq SeatIds(gameState)

\* the seat the deal gave the card to: each hand is a splice of the deck
DealtSeat(gs, card) ==
    CHOOSE i \in Seats(gs) :
        \E r \in 1..scope.shuffles :
            LET shuffled == shuffleDeck(createDeck, r)
                hand == DealtHand(SubSeq(shuffled, 1, Len(shuffled) - 1), i)
            IN  \E k \in 1..Len(hand) : hand[k].id = card.id

\* the entry of a trick that wins it: the first one no other entry beats
WinningEntry(trick, vira) ==
    LET maximal == {k \in 1..Len(trick) :
                      \A m \in 1..Len(trick) :
                          compareCards(trick[m].card, trick[k].card, vira) <= 0}
    IN  trick[CHOOSE k \in maximal : \A m \in maximal : k <= m]

\* the tricks whose winning card was played from a hand of the team
TricksWonBy(gs, tricks, team) ==
    Cardinality({n \in 1..Len(tricks) :
        gs.players[DealtSeat(gs, WinningEntry(tricks[n], gs.vira).card)].team = team})

\* C36: a round finished by a played card goes to the team whose seats
\* played the winning card in more tricks of the round than the other team:
\* the two tallies differ, the team ahead gains the points and the other
\* team's score stays.
C36_RoundGoesToTrickMajority ==
    [][ (gameState.roundState = PLAYING /\ Finished(gameState'))
          => \A s \in sockets : \A cardId \in CardIds(gameState) :
                ( /\ InHandOf(gameState, s, cardId)
                  /\ PlayCard(s, cardId) )
                  => LET tricks == Append(gameState.tricks, TrickAfter(gameState, s, cardId))
                         a == TricksWonBy(gameState, tricks, "A")
                         b == TricksWonBy(gameState, tricks, "B")
                         ahead == IF a > b THEN "A" ELSE "B"
                     IN  /\ a # b
                         /\ ScoreOf(gameState', ahead) > ScoreOf(gameState, ahead)
                         /\ ScoreOf(gameState', OtherTeam(ahead))
                               = ScoreOf(gameState, OtherTeam(ahead)) ]_vars

\* C37: a reconnect request changes the connection id of a seat only if
\* the seat is marked disconnected; a seat whose connection is live keeps
\* its id whatever display name the request presents.
C37_ReconnectSparesLiveSeats ==
    [][ ReconnectStep
          => /\ Len(gameState'.players) >= Len(gameState.players)
             /\ \A i \in Seats(gameState) :
                   gameState'.players[i].id # gameState.players[i].id
                     => gameState.players[i].isDisconnected ]_vars

\* the handler of reconnect_game reports no error to connection s:
\* reconnectPlayer found the name, or addPlayer returned a seat
ReconnectReported(gs, names, s, username) ==
    \/ foundPlayerId(names, username) # NullId
    \/ Len(gs.players) < RequiredPlayers(gs.mode)

\* C38: after a reconnect request that is reported as successful the new
\* connection id is the id of exactly one seat of the match.
C38_ReportedReconnectIsSeated ==
    [][ \A s \in sockets : \A username \in scope.names[s] :
          ( /\ ReconnectGame(s, username)
            /\ ReconnectReported(gameState, disconnectedPlayers, s, username) )
            => Cardinality({i \in Seats(gameState') : gameState'.players[i].id = s}) = 1 ]_vars

\* the seats whose dealer flag is set
DealerSeats(gs) == {i \in Seats(gs) : gs.players[i].isDealer}

\* C39: in every state with at least one seat exactly one seat has the
\* dealer flag, and it is the seat whose id is the dealer pointer.
C39_DealerFlagMatchesPointer ==
    Len(gameState.players) > 0 =>
        /\ Cardinality(DealerSeats(gameState)) = 1
        /\ \A i \in DealerSeats(gameState) :
              gameState.players[i].id = gameState.dealer

\* the teams whose score has reached the winning score
TeamsAtWinScore(gs) == {team \in {"A", "B"} : ScoreOf(gs, team) >= WinScore}

\* the winner field, the round state and the scores of gs agree
WinRecorded(gs) ==
    /\ gs.winner # "null" <=> gs.roundState = GAME_OVER
    /\ gs.roundState = GAME_OVER <=> TeamsAtWinScore(gs) # {}
    /\ Cardinality(TeamsAtWinScore(gs)) <= 1
    /\ gs.winner # "null" => TeamsAtWinScore(gs) = {gs.winner}

\* C40: in every state the winner is set exactly when the round state is
\* GAME_OVER, exactly when some team has 12 points or more; at most one team
\* has, the winner is that team, and no step gives a match that has a winner
\* the other team as its winner.
C40_WinBookkeeping ==
    [][ /\ WinRecorded(gameState)
        /\ WinRecorded(gameState')
        /\ (gameState.winner # "null" /\ gameState'.winner # "null")
              => gameState'.winner = gameState.winner ]_vars

====
